---- MODULE Spec2Model ----
(***************************************************************************)
(* The expense ledger of src/main.py: one SQLite table `expenses`, the     *)
(* module-load initialisation init_db, and the five tool handlers          *)
(* add_expense, list_expenses, summarize_expenses_by_category,             *)
(* delete_expense and update_expense.  Every handler opens a connection of *)
(* its own, executes one statement, and (writers) commits; the awaits      *)
(* between those steps are the points where other handlers interleave.     *)
(***************************************************************************)
EXTENDS Integers, Sequences, FiniteSets, TLC

(***************************************************************************)
(* Bounds and input domains                                                *)
(***************************************************************************)

\* Largest value the AUTOINCREMENT counter may reach in a run.
MaxId == 3

\* Concurrent callers (each runs one handler at a time).
Callers == {"p", "q"}

\* Text values are sequences of character codes; dates are digit strings.
\* "05" and "10" are zero padded, "9" is not (it sorts after "10").
D05 == <<0, 5>>
D10 == <<1, 0>>
D9  == <<9>>
Dates == {D05, D10, D9}

\* The marker of an optional argument the caller left out.
Omitted == "<omitted>"

\* Argument records (date, amount, category, subcategory, note) callers pass
\* to add_expense and update_expense: every date with two of three expenses.
Expense(d, amt, cat, sub, memo) ==
    [date |-> d, amount |-> amt, category |-> cat, subcategory |-> sub, note |-> memo]
ExpenseArgs ==
    { Expense(D05, 2, "food", Omitted, Omitted),
      Expense(D10, 2, "food", Omitted, Omitted),
      Expense(D10, -1, "food", "sub", "memo"),
      Expense(D9, -1, "food", "sub", "memo"),
      Expense(D05, 2, "test", Omitted, "memo"),
      Expense(D9, 2, "test", Omitted, "memo") }

\* Ids callers pass to delete_expense and update_expense (MaxId + 1 is never
\* assigned).
IdArgs == 1..(MaxId + 1)

\* Category arguments of summarize_expenses_by_category ("" is the default).
CategoryArgs == {"", "food", "test"}

\* Storage failures: SQLITE_READONLY, SQLITE_BUSY, SQLITE_IOERR.
ErrKinds == {"readonly", "locked", "ioerror"}

(***************************************************************************)
(* Text helpers                                                            *)
(***************************************************************************)

\* Lexicographic comparison of two texts (SQLite's BINARY collation, and
\* Python's str comparison): first differing character decides, a proper
\* prefix sorts first.
RECURSIVE StrLeq(_, _)
StrLeq(a, b) ==
    IF a = <<>> THEN TRUE
    ELSE IF b = <<>> THEN FALSE
    ELSE IF Head(a) # Head(b) THEN Head(a) < Head(b)
    ELSE StrLeq(Tail(a), Tail(b))

StrLt(a, b) == StrLeq(a, b) /\ a # b

\* str(e) of the exception the driver raises for each failure.
ErrText(k) ==
    CASE k = "readonly" -> <<"attempt", "to", "write", "a", "readonly", "database">>
      [] k = "locked"   -> <<"database", "is", "locked">>
      [] k = "ioerror"  -> <<"disk", "I/O", "error">>

\* str.lower(), word by word.
LowerWord(w) == IF w = "I/O" THEN "i/o" ELSE w
Lower(s) == [i \in DOMAIN s |-> LowerWord(s[i])]

\* `word in text`.
Contains(s, w) == \E i \in DOMAIN s : s[i] = w

(***************************************************************************)
(* The table: db = [rows, seq].  rows is the set of records of `expenses`, *)
(* seq the AUTOINCREMENT counter SQLite keeps in sqlite_sequence.          *)
(***************************************************************************)

EmptyDb == [rows |-> {}, seq |-> 0]

SetMax(S) == IF S = {} THEN 0 ELSE CHOOSE m \in S : \A x \in S : x <= m

MaxRowid(db) == SetMax({r.id : r \in db.rows})

\* A rowid chosen without AUTOINCREMENT: one more than the largest rowid in
\* the table now, so the id of a deleted last row comes back.
NextRowidReusing(db) == MaxRowid(db) + 1

\* id INTEGER PRIMARY KEY AUTOINCREMENT: one more than the largest rowid the
\* table has ever held.
NextRowid(db) ==
    (IF db.seq >= MaxRowid(db) THEN db.seq ELSE MaxRowid(db)) + 1

\* An optional string parameter: subcategory: str = "", note: str = "".
DefaultEmpty(x) == IF x = Omitted THEN "" ELSE x

MakeRow(id, a) ==
    [id |-> id, date |-> a.date, amount |-> a.amount, category |-> a.category,
     subcategory |-> DefaultEmpty(a.subcategory), note |-> DefaultEmpty(a.note)]

\* INSERT INTO expenses (date, amount, category, subcategory, note) VALUES (?,?,?,?,?)
InsertExpense(db, a) ==
    [rows |-> db.rows \cup {MakeRow(NextRowid(db), a)}, seq |-> NextRowid(db)]

\* DELETE FROM expenses WHERE id = ?
DeleteById(db, id) == [db EXCEPT !.rows = {r \in db.rows : r.id # id}]

\* An UPDATE that leaves the note column out of its SET list.
UpdateByIdKeepNote(db, id, a) ==
    [db EXCEPT !.rows =
        {IF r.id = id THEN [MakeRow(id, a) EXCEPT !.note = r.note] ELSE r : r \in db.rows}]

\* UPDATE expenses SET date = ?, amount = ?, category = ?, subcategory = ?,
\* note = ? WHERE id = ?
UpdateById(db, id, a) ==
    [db EXCEPT !.rows = {IF r.id = id THEN MakeRow(id, a) ELSE r : r \in db.rows}]

\* cursor.rowcount of a DELETE or UPDATE ... WHERE id = ?
RowCount(db, id) == Cardinality({r \in db.rows : r.id = id})

\* The row init_db writes to test write access: date, amount and category
\* given, subcategory and note from the column defaults.
TestDate == <<2, 0, 0, 0>>
TestRow(id) ==
    [id |-> id, date |-> TestDate, amount |-> 0, category |-> "test",
     subcategory |-> "", note |-> ""]

\* INSERT OR IGNORE INTO expenses(date, amount, category) VALUES ('2000-01-01', 0, 'test')
InsertTestRow(db) ==
    [rows |-> db.rows \cup {TestRow(NextRowid(db))}, seq |-> NextRowid(db)]

\* DELETE FROM expenses WHERE category = 'test'
DeleteTestRows(db) == [db EXCEPT !.rows = {r \in db.rows : r.category # "test"}]

\* The transaction of init_db: the write-access probe, committed on leaving
\* the `with` block.
InitDbTxn(db) == DeleteTestRows(InsertTestRow(db))

(***************************************************************************)
(* Queries                                                                 *)
(***************************************************************************)

\* A range test that leaves the end date out.
BetweenOpenEnd(d, lo, hi) == StrLeq(lo, d) /\ StrLt(d, hi)

\* date BETWEEN ? AND ?
Between(d, lo, hi) == StrLeq(lo, d) /\ StrLeq(d, hi)

\* Insertion order: ORDER BY id ASC.
ByIdAsc(r1, r2) == r1.id < r2.id

\* ORDER BY date DESC, id DESC: r1 comes before r2.
ComesBefore(r1, r2) ==
    \/ StrLt(r2.date, r1.date)
    \/ r1.date = r2.date /\ r1.id > r2.id

RECURSIVE SortRows(_)
SortRows(S) ==
    IF S = {} THEN <<>>
    ELSE LET first == CHOOSE r \in S : \A o \in S \ {r} : ComesBefore(r, o)
         IN  <<first>> \o SortRows(S \ {first})

\* SELECT id, date, amount, category, subcategory, note FROM expenses
\* WHERE date BETWEEN ? AND ? ORDER BY date DESC, id DESC
ListQuery(db, lo, hi) == SortRows({r \in db.rows : Between(r.date, lo, hi)})

RECURSIVE SumAmount(_)
SumAmount(S) ==
    IF S = {} THEN 0
    ELSE LET r == CHOOSE x \in S : TRUE IN r.amount + SumAmount(S \ {r})

\* A WHERE clause that drops the category test.
SummaryMatchesAnyCategory(db, lo, hi, category) ==
    {r \in db.rows : Between(r.date, lo, hi)}

\* The WHERE clause of the summary: `if category:` picks the statement with
\* AND category = ?.
SummaryMatches(db, lo, hi, category) ==
    IF category # ""
    THEN {r \in db.rows : Between(r.date, lo, hi) /\ r.category = category}
    ELSE {r \in db.rows : Between(r.date, lo, hi)}

\* GROUP BY category, with SUM(amount) as total_amount, COUNT(*) as count.
SummaryGroups(db, lo, hi, category) ==
    LET M == SummaryMatches(db, lo, hi, category)
    IN  { [category |-> c,
           total_amount |-> SumAmount({r \in M : r.category = c}),
           count |-> Cardinality({r \in M : r.category = c})] :
            c \in {r.category : r \in M} }

\* ORDER BY total_amount DESC: every arrangement of the groups with the
\* totals non-increasing (SQL leaves the order of equal totals open).
SummaryResults(db, lo, hi, category) ==
    LET G == SummaryGroups(db, lo, hi, category)
        n == Cardinality(G)
    IN  { q \in [1..n -> G] :
            /\ \A i, j \in 1..n : i # j => q[i] # q[j]
            /\ \A i \in 1..n : i < n => q[i].total_amount >= q[i + 1].total_amount }

(***************************************************************************)
(* What the handlers return                                                *)
(***************************************************************************)

AddSuccess(id) ==
    [status |-> "success", id |-> id,
     message |-> <<"Expense", "added", "successfully">>]

\* add_expense's except clause: a read-only database gets a message of its own.
AddError(k) ==
    IF Contains(Lower(ErrText(k)), "readonly")
    THEN [status |-> "error",
          message |-> <<"Database", "is", "in", "read-only", "mode.",
                        "Check", "file", "permissions.">>]
    ELSE [status |-> "error", message |-> <<"Database", "error:">> \o ErrText(k)]

ListError(k) ==
    [status |-> "error", message |-> <<"Error", "listing", "expenses:">> \o ErrText(k)]

SummarizeError(k) ==
    [status |-> "error", message |-> <<"Error", "summarizing", "expenses:">> \o ErrText(k)]

\* An except clause that reports the failure without the driver's text.
DeleteErrorNoDetail(k) ==
    [status |-> "error", message |-> <<"Error", "deleting", "expense">>]

DeleteError(k) ==
    [status |-> "error", message |-> <<"Error", "deleting", "expense:">> \o ErrText(k)]

\* A handler without its try/except: the exception reaches the caller.
UpdateRaises(k) == [status |-> "raised", exception |-> ErrText(k)]

UpdateError(k) ==
    [status |-> "error", message |-> <<"Error", "updating", "expense:">> \o ErrText(k)]

ErrorResult(o, k) ==
    CASE o = "add"       -> AddError(k)
      [] o = "list"      -> ListError(k)
      [] o = "summarize" -> SummarizeError(k)
      [] o = "delete"    -> DeleteError(k)
      [] o = "update"    -> UpdateError(k)

\* return [dict(zip(cols, row)) for row in rows]
RowsResult(q) == [status |-> "rows", rows |-> q]

DeleteResult(n) == [status |-> "ok", deleted |-> n]
UpdateResult(n) == [status |-> "ok", updated |-> n]

(***************************************************************************)
(* State                                                                   *)
(***************************************************************************)

VARIABLES
    db,        \* the committed contents of the database file
    lock,      \* the caller holding SQLite's write lock, or "none"
    pc,        \* per caller: "idle", "called", "executed", "done"
    op,        \* per caller: the handler it runs
    args,      \* per caller: the arguments of the call
    txn,       \* per caller: the uncommitted contents its connection sees
    cur,       \* per caller: the cursor of the executed statement
    res,       \* per caller: the value the handler returned
    cause,     \* per caller: the storage failure that ended the call, or "none"
    serial,    \* history: the successful writes applied one after the other
    wrote,     \* history: stored id -> the arguments of the add or update that last wrote it
    issued,    \* history: the ids of committed inserts, in commit order
    returned,  \* history: the ids successful add_expense calls returned
    deleted    \* history: the ids whose rows delete_expense deleted

vars == <<db, lock, pc, op, args, txn, cur, res, cause,
          serial, wrote, issued, returned, deleted>>

hist == <<serial, wrote, issued, returned, deleted>>

Ops == {"add", "list", "summarize", "delete", "update"}
WriteOps == {"add", "delete", "update"}

NoArgs == [none |-> TRUE]
NoCur  == [none |-> TRUE]
NoRes  == [status |-> "none"]

\* The arguments a caller may pass to each handler, the expenses drawn from E,
\* the date ranges from R and the categories from G.
ArgsOf(o, E, R, G) ==
    CASE o = "add"       -> E
      [] o = "list"      -> R
      [] o = "summarize" -> {r @@ [category |-> g] : r \in R, g \in G}
      [] o = "delete"    -> [expense_id : IdArgs]
      [] o = "update"    -> {[expense_id |-> i] @@ a : i \in IdArgs, a \in E}

\* What a SELECT on a fresh connection reads: the last committed contents
\* (journal_mode=WAL: readers are not blocked and see no uncommitted change).
ReadView == db

\* A handler that returns success without `await c.commit()`: closing the
\* connection rolls its change back.
PublishNothing(c) == db

\* await c.commit(): the connection's changes become the committed contents.
Publish(c) == txn[c]

\* Init: the module was loaded once, against a database file that did not
\* exist: init_db created the table and ran its write-access probe.
Init ==
    /\ db = InitDbTxn(EmptyDb)
    /\ lock = "none"
    /\ pc = [c \in Callers |-> "idle"]
    /\ op = [c \in Callers |-> "none"]
    /\ args = [c \in Callers |-> NoArgs]
    /\ txn = [c \in Callers |-> EmptyDb]
    /\ cur = [c \in Callers |-> NoCur]
    /\ res = [c \in Callers |-> NoRes]
    /\ cause = [c \in Callers |-> "none"]
    /\ serial = InitDbTxn(EmptyDb)
    /\ wrote = <<>>
    /\ issued = <<NextRowid(EmptyDb)>>
    /\ returned = {}
    /\ deleted = {}

(***************************************************************************)
(* Steps.  A handler runs from its call to the first await that touches    *)
(* the database (connect and execute: nothing another caller can see       *)
(* happens between them), then to its commit or fetchall, then returns.    *)
(* The arguments take part from the execute on.                            *)
(***************************************************************************)

\* A history of writes w, kept for the ids that d still stores.
Kept(w, d) == [i \in DOMAIN w \cap {r.id : r \in d.rows} |-> w[i]]

\* The ids of the rows of `before` that `after` no longer holds.
Gone(before, after) == {r.id : r \in before.rows} \ {r.id : r \in after.rows}

\* The protocol layer dispatches a call of handler o to caller c.
Call(c, o) ==
    /\ pc[c] = "idle"
    /\ pc' = [pc EXCEPT ![c] = "called"]
    /\ op' = [op EXCEPT ![c] = o]
    /\ UNCHANGED <<db, lock, args, txn, cur, res, cause, hist>>

\* A writer's execute: the INSERT, UPDATE or DELETE opens a transaction and
\* takes the write lock, which no other connection may hold.
WriteExecute(c, a, after, cursor) ==
    /\ pc[c] = "called"
    /\ lock = "none"
    /\ lock' = c
    /\ args' = [args EXCEPT ![c] = a]
    /\ txn' = [txn EXCEPT ![c] = after]
    /\ cur' = [cur EXCEPT ![c] = cursor]
    /\ pc' = [pc EXCEPT ![c] = "executed"]
    /\ UNCHANGED <<db, op, res, cause, hist>>

\* A writer's commit and return: the lock is released as the connection
\* closes.
WriteCommit(c, result) ==
    /\ pc[c] = "executed"
    /\ db' = Publish(c)
    /\ lock' = "none"
    /\ txn' = [txn EXCEPT ![c] = EmptyDb]
    /\ cur' = [cur EXCEPT ![c] = NoCur]
    /\ res' = [res EXCEPT ![c] = result]
    /\ pc' = [pc EXCEPT ![c] = "done"]
    /\ args' = [args EXCEPT ![c] = NoArgs]
    /\ deleted' = deleted \cup Gone(db, db')
    /\ UNCHANGED <<op, cause>>

\* A reader's execute: the SELECT runs against ReadView.
ReadExecute(c, a, q) ==
    /\ pc[c] = "called"
    /\ args' = [args EXCEPT ![c] = a]
    /\ cur' = [cur EXCEPT ![c] = [rows |-> q]]
    /\ pc' = [pc EXCEPT ![c] = "executed"]
    /\ UNCHANGED <<db, lock, op, txn, res, cause, hist>>

\* A reader's fetchall and return.
ReadFetch(c) ==
    /\ pc[c] = "executed"
    /\ res' = [res EXCEPT ![c] = RowsResult(cur[c].rows)]
    /\ cur' = [cur EXCEPT ![c] = NoCur]
    /\ args' = [args EXCEPT ![c] = NoArgs]
    /\ pc' = [pc EXCEPT ![c] = "done"]
    /\ UNCHANGED <<db, lock, op, txn, cause, hist>>

AddExecute(c, a) ==
    /\ op[c] = "add"
    /\ NextRowid(db) <= MaxId
    /\ WriteExecute(c, a, InsertExpense(db, a), [lastrowid |-> NextRowid(db)])

AddCommit(c) ==
    /\ op[c] = "add"
    /\ WriteCommit(c, AddSuccess(cur[c].lastrowid))
    /\ serial' = InsertExpense(serial, args[c])
    /\ wrote' = Kept((cur[c].lastrowid :> args[c]) @@ wrote, db')
    /\ issued' = Append(issued, cur[c].lastrowid)
    /\ returned' = returned \cup {cur[c].lastrowid}

ListExecute(c, a) ==
    /\ op[c] = "list"
    /\ ReadExecute(c, a, ListQuery(ReadView, a.start_date, a.end_date))

ListFetch(c) ==
    /\ op[c] = "list"
    /\ ReadFetch(c)

SummarizeExecute(c, a) ==
    /\ op[c] = "summarize"
    /\ \E q \in SummaryResults(ReadView, a.start_date, a.end_date, a.category) :
          ReadExecute(c, a, q)

SummarizeFetch(c) ==
    /\ op[c] = "summarize"
    /\ ReadFetch(c)

DeleteExecute(c, a) ==
    /\ op[c] = "delete"
    /\ WriteExecute(c, a, DeleteById(db, a.expense_id),
                    [rowcount |-> RowCount(db, a.expense_id)])

DeleteCommit(c) ==
    /\ op[c] = "delete"
    /\ WriteCommit(c, DeleteResult(cur[c].rowcount))
    /\ serial' = DeleteById(serial, args[c].expense_id)
    /\ wrote' = Kept(wrote, db')
    /\ UNCHANGED <<issued, returned>>

UpdateExecute(c, a) ==
    /\ op[c] = "update"
    /\ WriteExecute(c, a, UpdateById(db, a.expense_id, a),
                    [rowcount |-> RowCount(db, a.expense_id)])

UpdateCommit(c) ==
    /\ op[c] = "update"
    /\ WriteCommit(c, UpdateResult(cur[c].rowcount))
    /\ serial' = UpdateById(serial, args[c].expense_id, args[c])
    /\ wrote' = IF cur[c].rowcount > 0
                THEN Kept((args[c].expense_id :> args[c]) @@ wrote, db')
                ELSE wrote
    /\ UNCHANGED <<issued, returned>>

\* A storage failure k at the connect, the execute, the commit or the
\* fetchall: the handler's except clause returns, and the connection closes,
\* which rolls an open transaction back and releases the lock.
Fail(c, k) ==
    /\ pc[c] \in {"called", "executed"}
    /\ res' = [res EXCEPT ![c] = ErrorResult(op[c], k)]
    /\ cause' = [cause EXCEPT ![c] = k]
    /\ lock' = IF lock = c THEN "none" ELSE lock
    /\ txn' = [txn EXCEPT ![c] = EmptyDb]
    /\ cur' = [cur EXCEPT ![c] = NoCur]
    /\ args' = [args EXCEPT ![c] = NoArgs]
    /\ pc' = [pc EXCEPT ![c] = "done"]
    /\ UNCHANGED <<db, op, hist>>

\* The caller has its response.
Return(c) ==
    /\ pc[c] = "done"
    /\ pc' = [pc EXCEPT ![c] = "idle"]
    /\ op' = [op EXCEPT ![c] = "none"]
    /\ res' = [res EXCEPT ![c] = NoRes]
    /\ cause' = [cause EXCEPT ![c] = "none"]
    /\ UNCHANGED <<db, lock, args, txn, cur, hist>>

\* A module load (a server start against the existing file): init_db runs
\* its statements in one transaction and commits.
InitDb ==
    /\ lock = "none"
    /\ NextRowid(db) <= MaxId
    /\ db' = InitDbTxn(db)
    /\ serial' = InitDbTxn(serial)
    /\ issued' = Append(issued, NextRowid(db))
    /\ wrote' = Kept(wrote, db')
    /\ UNCHANGED <<lock, pc, op, args, txn, cur, res, cause, returned, deleted>>

\* A module load whose init_db fails: the exception is printed and raised
\* again, the transaction is rolled back.
InitDbFail == UNCHANGED vars

\* The steps of the callers in C, with inputs from E, R and G and storage
\* failures from K.
NextOf(C, E, R, G, K) ==
    \/ \E c \in C, o \in Ops : Call(c, o)
    \/ \E c \in C : \E a \in ArgsOf("add", E, R, G) : AddExecute(c, a)
    \/ \E c \in C : AddCommit(c)
    \/ \E c \in C : \E a \in ArgsOf("list", E, R, G) : ListExecute(c, a)
    \/ \E c \in C : ListFetch(c)
    \/ \E c \in C : \E a \in ArgsOf("summarize", E, R, G) : SummarizeExecute(c, a)
    \/ \E c \in C : SummarizeFetch(c)
    \/ \E c \in C : \E a \in ArgsOf("delete", E, R, G) : DeleteExecute(c, a)
    \/ \E c \in C : DeleteCommit(c)
    \/ \E c \in C : \E a \in ArgsOf("update", E, R, G) : UpdateExecute(c, a)
    \/ \E c \in C : UpdateCommit(c)
    \/ \E c \in C, k \in K : Fail(c, k)
    \/ \E c \in C : Return(c)
    \/ InitDb
    \/ InitDbFail

\* One caller at a time, the full input domains.
Next ==
    NextOf({"p"}, ExpenseArgs, [start_date : Dates, end_date : Dates],
           CategoryArgs, ErrKinds)

Spec == Init /\ [][Next]_vars

\* Concurrent callers, two expenses, two date ranges, the default category
\* argument and two kinds of storage failure.
NextConcurrent ==
    NextOf(Callers,
           { Expense(D05, 2, "food", Omitted, Omitted),
             Expense(D10, -1, "test", "sub", "memo") },
           { [start_date |-> D05, end_date |-> D10],
             [start_date |-> D10, end_date |-> D10] },
           {""}, {"readonly", "locked"})

SpecConcurrent == Init /\ [][NextConcurrent]_vars

(***************************************************************************)
(* Properties                                                              *)
(***************************************************************************)

Elems(q) == {q[i] : i \in DOMAIN q}

Ids(d) == {r.id : r \in d.rows}

\* The record a caller expects to read back for arguments a stored under id.
Expected(id, a) ==
    [id |-> id, date |-> a.date, amount |-> a.amount, category |-> a.category,
     subcategory |-> IF a.subcategory = Omitted THEN "" ELSE a.subcategory,
     note |-> IF a.note = Omitted THEN "" ELSE a.note]

\* The steps of caller c, told by its position.
Executes(c, o) == op[c] = o /\ pc[c] = "called" /\ pc'[c] = "executed"
Succeeds(c, o) ==
    op[c] = o /\ pc[c] = "executed" /\ pc'[c] = "done" /\ cause'[c] = "none"
Finishes(c) == pc[c] \in {"called", "executed"} /\ pc'[c] = "done"

\* C1: list_expenses returns exactly the stored records whose date lies in
\* [start_date, end_date] under string comparison, both ends included, each
\* once, with the field values the add_expense or last update_expense that
\* wrote the record was given; with no match, or start_date > end_date, it
\* returns the empty sequence and not an error.
C1_ListReturnsRange ==
    [][\A c \in Callers :
        /\ Executes(c, "list") =>
             LET q == cur'[c].rows
                 lo == args'[c].start_date
                 hi == args'[c].end_date
                 want == {r \in db.rows : StrLeq(lo, r.date) /\ StrLeq(r.date, hi)}
             IN  /\ Elems(q) = want
                 /\ Len(q) = Cardinality(want)
                 /\ \A r \in Elems(q) :
                       r.id \in DOMAIN wrote /\ r = Expected(r.id, wrote[r.id])
                 /\ (want = {} \/ StrLt(hi, lo)) => q = <<>>
        /\ Succeeds(c, "list") => res'[c] = [status |-> "rows", rows |-> cur[c].rows]
      ]_vars

\* A list call holds a result with a record dated exactly start_date and
\* another dated exactly end_date.
C1_Witness ==
    \E c \in Callers :
        /\ op[c] = "list" /\ pc[c] = "executed"
        /\ args[c].start_date # args[c].end_date
        /\ \E r1, r2 \in Elems(cur[c].rows) :
              r1.date = args[c].start_date /\ r2.date = args[c].end_date

\* C2: delete_expense of an id that add_expense returned and that was not
\* deleted yet returns deleted = 1 and removes that row and no other;
\* delete_expense of an id deleted before, or never assigned, returns status
\* ok with deleted = 0 and leaves the table as it was.
C2_DeleteExactlyOnce ==
    [][\A c \in Callers :
        Succeeds(c, "delete") =>
            LET id == args[c].expense_id IN
            /\ (id \in returned \ deleted) =>
                  /\ res'[c] = [status |-> "ok", deleted |-> 1]
                  /\ \E r \in db.rows : r.id = id /\ db'.rows = db.rows \ {r}
                  /\ Cardinality(db'.rows) = Cardinality(db.rows) - 1
            /\ (id \in deleted \/ id \notin Elems(issued)) =>
                  /\ res'[c] = [status |-> "ok", deleted |-> 0]
                  /\ db' = db
      ]_vars

\* C3: update_expense on an existing id returns updated = 1 and replaces the
\* five mutable fields of that row by the arguments (an omitted subcategory or
\* note becomes the empty string), so that listing a range containing the new
\* date shows the new values and not the old; the id and every other row stay.
\* On an absent id it returns status ok with updated = 0 and changes nothing.
C3_UpdateReplacesRow ==
    [][\A c \in Callers :
        Succeeds(c, "update") =>
            LET id == args[c].expense_id
                new == Expected(id, args[c])
                q == ListQuery(db', args[c].date, args[c].date)
            IN  IF id \in Ids(db)
                THEN /\ res'[c] = [status |-> "ok", updated |-> 1]
                     /\ new \in db'.rows
                     /\ {r \in db'.rows : r.id # id} = {r \in db.rows : r.id # id}
                     /\ Cardinality(db'.rows) = Cardinality(db.rows)
                     /\ new \in Elems(q)
                     /\ \A r \in Elems(q) : r.id = id => r = new
                ELSE /\ res'[c] = [status |-> "ok", updated |-> 0]
                     /\ db' = db
      ]_vars

\* An update returned updated = 1, the row holds a new date and empty
\* subcategory, and another row is stored beside it.
C3_Witness ==
    \E c \in Callers :
        /\ op[c] = "update" /\ pc[c] = "done"
        /\ res[c] = [status |-> "ok", updated |-> 1]
        /\ \E r \in db.rows :
              /\ r.id \in DOMAIN wrote
              /\ wrote[r.id].subcategory = Omitted /\ r.subcategory = ""
              /\ "expense_id" \in DOMAIN wrote[r.id]
        /\ Cardinality(db.rows) >= 2

RECURSIVE SeqSum(_)
SeqSum(q) == IF q = <<>> THEN 0 ELSE Head(q).amount + SeqSum(Tail(q))

\* C4: summarize_expenses_by_category returns one entry per category with a
\* record in the date range (only the given category when the argument is
\* non-empty); total_amount is the sum of amount and count the number of the
\* records list_expenses returns for that range and category; a category
\* without a matching record has no entry.
C4_SummaryMatchesList ==
    [][\A c \in Callers :
        Executes(c, "summarize") =>
            LET q == cur'[c].rows
                a == args'[c]
                listed == ListQuery(db, a.start_date, a.end_date)
                of(cat) == SelectSeq(listed, LAMBDA r : r.category = cat)
                cats == {cat \in {r.category : r \in db.rows} :
                            /\ of(cat) # <<>>
                            /\ a.category # "" => cat = a.category}
            IN  /\ Elems(q) = { [category |-> cat, total_amount |-> SeqSum(of(cat)),
                                 count |-> Len(of(cat))] : cat \in cats }
                /\ Len(q) = Cardinality(cats)
      ]_vars

\* A summary restricted to one category totals two records of it with
\* different amounts.
C4_Witness ==
    \E c \in Callers :
        /\ op[c] = "summarize" /\ pc[c] = "executed"
        /\ args[c].category = "food"
        /\ Len(cur[c].rows) = 1
        /\ cur[c].rows[1].count = 2
        /\ cur[c].rows[1].total_amount = 1

\* C5: no two stored records share an id; the ids of committed inserts
\* (add_expense and the probe of init_db) grow strictly, so an id returned by
\* add_expense exceeds every id assigned before it and the id of a deleted row
\* is never assigned again; every stored record carries a date, an amount and
\* a category.
C5_IdsUniqueAndIncreasing ==
    /\ \A r1, r2 \in db.rows : r1.id = r2.id => r1 = r2
    /\ \A i, j \in DOMAIN issued : i < j => issued[i] < issued[j]
    /\ \A c \in Callers :
          (pc[c] = "done" /\ op[c] = "add" /\ cause[c] = "none") =>
              /\ res[c].status = "success"
              /\ res[c].id \in Elems(issued)
              /\ \A i \in Ids(db) \cup deleted : i <= issued[Len(issued)]
    /\ deleted \subseteq Elems(issued)
    /\ \A r \in db.rows :
          /\ r.date \in Dates \cup {TestDate}
          /\ r.amount \in Int
          /\ r.category \in {"food", "test"}

\* An add_expense returned an id after the row of an earlier returned id was
\* deleted.
C5_Witness ==
    \E c \in Callers :
        /\ pc[c] = "done" /\ op[c] = "add" /\ res[c].status = "success"
        /\ \E i \in returned \cap deleted : i < res[c].id
        /\ res[c].id \in Ids(db)

C7_FailuresReturnedAndRolledBack ==
    [][\A c \in Callers :
        Finishes(c) =>
            /\ res'[c].status \in {"success", "ok", "rows", "error"}
            /\ cause'[c] # "none" =>
                  /\ res'[c].status = "error"
                  /\ Len(res'[c].message) > 0
                  /\ db' = db
                  /\ lock' # c
      ]_vars

\* An update_expense failed with an error result while a row is stored and no
\* transaction is open.
C7_Witness ==
    \E c \in Callers :
        /\ pc[c] = "done" /\ op[c] = "update" /\ cause[c] # "none"
        /\ res[c].status = "error"
        /\ db.rows # {} /\ lock = "none"

\* C8: list_expenses returns its records newest first: by date descending,
\* and by id descending among records of one date.
C8_ListNewestFirst ==
    \A c \in Callers :
        (op[c] = "list" /\ (pc[c] = "executed" \/ res[c].status = "rows")) =>
            LET q == IF pc[c] = "executed" THEN cur[c].rows ELSE res[c].rows IN
            \A i, j \in DOMAIN q :
                i < j => \/ StrLt(q[j].date, q[i].date)
                         \/ q[i].date = q[j].date /\ q[i].id > q[j].id

\* A list call returned two records of one date.
C8_Witness ==
    \E c \in Callers :
        /\ op[c] = "list" /\ res[c].status = "rows"
        /\ Len(res[c].rows) = 2
        /\ res[c].rows[1].date = res[c].rows[2].date

\* C9: a module load (init_db with its write-access probe) leaves every
\* record callers stored present and unchanged, whatever its category: a step
\* that is no caller's changes no row.
C9_InitDbKeepsRows ==
    [][(\A c \in Callers : pc'[c] = pc[c]) => db'.rows = db.rows]_vars

\* C10: each call takes effect entirely or not at all: the committed table
\* is always the result of applying the successful writes one after the other
\* in the order of their commits, and what a read call reads is the table of
\* those writes alone, with no change of a write still in progress or failed.
C10_Serializable ==
    [][/\ db' = serial'
       /\ \A c \in Callers :
            /\ Executes(c, "list") =>
                 cur'[c].rows =
                     ListQuery(serial, args'[c].start_date, args'[c].end_date)
            /\ Executes(c, "summarize") =>
                 Elems(cur'[c].rows) =
                     SummaryGroups(serial, args'[c].start_date, args'[c].end_date,
                                   args'[c].category)
      ]_vars

\* A reader holds the committed rows while a writer holds the lock with an
\* uncommitted change.
C10_Witness ==
    \E w, r \in Callers :
        /\ pc[w] = "executed" /\ op[w] \in WriteOps /\ lock = w
        /\ txn[w].rows # db.rows
        /\ pc[r] = "executed" /\ op[r] = "list"
        /\ args[r] = [start_date |-> D05, end_date |-> D10]
        /\ Elems(cur[r].rows) = db.rows
        /\ db.rows # {}

====
